---------------------------- MODULE Spec2Model ----------------------------
(***************************************************************************)
(* Model of the sensor polling engine of scantool                          *)
(* (src/trunk/scantool/sensors.c): the per-sensor request/await/parse      *)
(* state machine of sensor_proc, the page flipper and toggle handlers, the *)
(* refresh-rate estimator, find_valid_response and the decode formulas.    *)
(*                                                                         *)
(* Text is a sequence of one-character strings.  The serial collaborator   *)
(* (send_command, read_comport, the request timer, process_response,       *)
(* reset_chip) lives outside sensors.c and is modelled from its contract.  *)
(***************************************************************************)
EXTENDS Integers, Sequences, FiniteSets, TLC

(***************************************************************************)
(* Program constants                                                       *)
(***************************************************************************)
NUM_OF_RETRIES == 3
SENSORS_TO_TIME_OUT == 3
REFRESH_RATE_PRECISION == 10

SENSOR_OFF == "SENSOR_OFF"
SENSOR_ACTIVE == "SENSOR_ACTIVE"
SENSOR_NA == "SENSOR_NA"

\* read_comport results
EMPTY == "EMPTY"
DATA == "DATA"
PROMPT == "PROMPT"

\* comport.status values
READY == "READY"
NOT_OPEN == "NOT_OPEN"
USER_IGNORED == "USER_IGNORED"

\* process_response results
HEX_DATA == "HEX_DATA"
ERR_NO_DATA == "ERR_NO_DATA"
BUS_ERROR == "BUS_ERROR"
BUS_BUSY == "BUS_BUSY"
DATA_ERROR == "DATA_ERROR"
DATA_ERROR2 == "DATA_ERROR2"
SERIAL_ERROR == "SERIAL_ERROR"
RUBBISH == "RUBBISH"

METRIC == "METRIC"
IMPERIAL == "IMPERIAL"

\* the delimiter process_response leaves between the lines of a response
SPECIAL_DELIMITER == "|"

NULL == -1

(***************************************************************************)
(* Bounds of the model                                                     *)
(***************************************************************************)
\* sensors per page; stands for SENSORS_PER_PAGE (9), scaled down
PageSize == 2
\* refresh_time is counted up to this many ticks
MaxRefreshTime == 1
\* longest text find_valid_response is explored on
MaxTextLen == 5
\* passes of find_valid_response's outer loop that are followed
MaxPasses == 3
\* longest response accumulated in vehicle_response (of its 511 characters)
MaxResponseLen == 12
\* largest raw value a decode formula is called with on its own: 2 bytes
MaxData == 65535

(***************************************************************************)
(* Text helpers                                                            *)
(***************************************************************************)
HexDigits ==
  {"0","1","2","3","4","5","6","7","8","9","A","B","C","D","E","F"}

HexVal(c) ==
  CASE c = "0" -> 0 [] c = "1" -> 1 [] c = "2" -> 2 [] c = "3" -> 3
    [] c = "4" -> 4 [] c = "5" -> 5 [] c = "6" -> 6 [] c = "7" -> 7
    [] c = "8" -> 8 [] c = "9" -> 9 [] c = "A" -> 10 [] c = "B" -> 11
    [] c = "C" -> 12 [] c = "D" -> 13 [] c = "E" -> 14 [] c = "F" -> 15

\* the character at 0-based offset p of a C string, "\0" at and past its end
CharAt(s, p) == IF p < Len(s) THEN s[p + 1] ELSE "\\0"

\* strcat(dst, src)
StrCat(dst, src) == dst \o src

\* the first n characters of s (all of s when it is shorter)
Prefix(s, n) == IF Len(s) <= n THEN s ELSE SubSeq(s, 1, n)

\* s from 0-based offset p on
Suffix(s, p) == IF p >= Len(s) THEN << >> ELSE SubSeq(s, p + 1, Len(s))

(***************************************************************************)
(* find_valid_response (sensors.c 1034-1066)                               *)
(***************************************************************************)
RECURSIVE SkipToDelimiter(_, _)
\* while (*in_ptr && *in_ptr != SPECIAL_DELIMITER) in_ptr++;
SkipToDelimiter(response, in_ptr) ==
  IF CharAt(response, in_ptr) # "\\0" /\ CharAt(response, in_ptr) # SPECIAL_DELIMITER
    THEN SkipToDelimiter(response, in_ptr + 1)
    ELSE in_ptr

\* the copy loop: the characters from in_ptr up to the next delimiter or the end
CopyValidResponse(response, in_ptr) ==
  SubSeq(response, in_ptr + 1, SkipToDelimiter(response, in_ptr))

\* if (*in_ptr == '4' && *(in_ptr+1) == '1')
IsValidResponseStart(response, in_ptr) ==
  CharAt(response, in_ptr) = "4" /\ CharAt(response, in_ptr + 1) = "1"

\* what one pass of the else branch does to in_ptr
SkipBranch(response, in_ptr) == SkipToDelimiter(response, in_ptr)

RECURSIVE FindLoop(_, _)
\* The outer while loop from in_ptr on.  A pass of the else branch that leaves
\* in_ptr where it was repeats for ever: the loop has no other state.
FindLoop(response, in_ptr) ==
  IF CharAt(response, in_ptr) = "\\0"
    THEN [returns |-> TRUE, buf |-> << >>]
    ELSE IF IsValidResponseStart(response, in_ptr)
      THEN [returns |-> TRUE, buf |-> CopyValidResponse(response, in_ptr)]
      ELSE IF SkipBranch(response, in_ptr) = in_ptr
        THEN [returns |-> FALSE, buf |-> << >>]
        ELSE FindLoop(response, SkipBranch(response, in_ptr))

\* [returns: the call comes back, found: its result, buf: what it left in buf]
find_valid_response(response) ==
  LET r == FindLoop(response, 0)
  IN [returns |-> r.returns, found |-> r.returns /\ Len(r.buf) > 0, buf |-> r.buf]

(***************************************************************************)
(* process_response (serial collaborator): the kind of an accumulated      *)
(* response.  The literal adapter phrases, spaces removed; text made of    *)
(* hex digits and line delimiters only is HEX_DATA; anything else RUBBISH. *)
(***************************************************************************)
TextNoData == <<"N","O","D","A","T","A">>
TextBusBusy == <<"B","U","S","B","U","S","Y">>
TextBusError == <<"B","U","S","E","R","R","O","R">>
TextDataError == <<"D","A","T","A","E","R","R","O","R">>
TextDataError2 == <<"<","D","A","T","A","E","R","R","O","R">>
TextSerialError == <<"?">>

IsHexNum(text) ==
  \A i \in 1..Len(text) : text[i] \in HexDigits \cup {SPECIAL_DELIMITER}

process_response(cmd_sent, msg_received) ==
  CASE msg_received = TextNoData -> ERR_NO_DATA
    [] msg_received = TextBusBusy -> BUS_BUSY
    [] msg_received = TextBusError -> BUS_ERROR
    [] msg_received = TextDataError -> DATA_ERROR
    [] msg_received = TextDataError2 -> DATA_ERROR2
    [] msg_received = TextSerialError -> SERIAL_ERROR
    [] OTHER -> IF IsHexNum(msg_received) THEN HEX_DATA ELSE RUBBISH

(***************************************************************************)
(* (int)strtol(buf + 4, 0, 16) after buf[4 + bytes*2] = 0                  *)
(* (sensors.c 927-928)                                                     *)
(***************************************************************************)
LONG_MAX_32 == 2147483647
\* widths of long among the builds: 32 (DOS, Windows, 32-bit Unix), 64 (LP64)
LongWidths == {32, 64}

RECURSIVE LeadingHex(_)
\* the digits strtol consumes: the longest prefix of hex digits
LeadingHex(s) ==
  IF s = << >> \/ Head(s) \notin HexDigits THEN << >>
  ELSE <<Head(s)>> \o LeadingHex(Tail(s))

RECURSIVE HexValue(_)
\* the value of at most 7 hex digits, most significant first
HexValue(ds) ==
  IF ds = << >> THEN 0
  ELSE HexValue(SubSeq(ds, 1, Len(ds) - 1)) * 16 + HexVal(ds[Len(ds)])

\* (int)strtol(s, 0, 16) for s of at most 8 characters: strtol saturates at
\* LONG_MAX where long has 32 bits; where it has 64 the cast to int wraps.
StrToInt(s, longBits) ==
  LET ds == LeadingHex(s)
  IN IF Len(ds) <= 7 THEN HexValue(ds)
     ELSE LET hi == HexValue(SubSeq(ds, 1, 4))
              lo == HexValue(SubSeq(ds, 5, 8))
          IN IF hi < 32768 THEN hi * 65536 + lo
             ELSE IF longBits = 32 THEN LONG_MAX_32
             ELSE (hi - 65536) * 65536 + lo

\* buf[4 + bytes*2] = 0: buf keeps at most its first 4 + 2*bytes characters
TruncatePadding(buf, bytes) == Prefix(buf, 4 + bytes * 2)

\* the text strtol is given: buf + 4 of the (at least 4 characters long) buf
PayloadText(buf, bytes) == Suffix(TruncatePadding(buf, bytes), 4)

\* the raw value handed to the formula, for a buf of at least 4 characters
RawData(buf, bytes, longBits) == StrToInt(PayloadText(buf, bytes), longBits)

(***************************************************************************)
(* Decode formulas.  A display value is the format with the numbers that   *)
(* are printed into it; floats are carried as the integers they scale.     *)
(***************************************************************************)
\* (int)x for the rational n/d, d > 0: truncation toward zero
TruncDiv(n, d) == IF n >= 0 THEN n \div d ELSE -((-n) \div d)

\* the literal display values, as formats without numbers
TextNA == [fmt |-> "N/A", args |-> << >>]
TextNotMonitoring == [fmt |-> "not monitoring", args |-> << >>]
TextEmpty == [fmt |-> "", args |-> << >>]

\* the formula without its division by 4
engine_rpm_formula_raw(data, system) ==
  IF system = METRIC
    THEN [fmt |-> "%i r/min", args |-> <<data>>]
    ELSE [fmt |-> "%i rpm", args |-> <<data>>]

\* (float)data/4 is exact for |data| < 2^24, which every 2-byte payload is
engine_rpm_formula(data, system) ==
  IF system = METRIC
    THEN [fmt |-> "%i r/min", args |-> <<TruncDiv(data, 4)>>]
    ELSE [fmt |-> "%i rpm", args |-> <<TruncDiv(data, 4)>>]

coolant_temp_formula(data, system) ==
  IF system = METRIC
    THEN [fmt |-> "%i%c C", args |-> <<data - 40>>]
    ELSE [fmt |-> "%i%c F", args |-> <<TruncDiv((data - 40) * 9 + 32 * 5, 5)>>]

\* args: data & 0xFFFF (times 0.000122 V), data >> 16 (times 0.0000305)
o2_sensor_wrv_formula(data, system) ==
  [fmt |-> "%.3f V, Eq. ratio: %.3f", args |-> <<data % 65536, data \div 65536>>]

\* data & 0xFF00 and data & 0x00FF of the two's complement int data
HighByteMask(data) == ((data \div 256) % 256) * 256
LowByteMask(data) == data % 256

fuel_system1_status_formula(data, system) ==
  LET d == HighByteMask(data)
  IN CASE d = 256 -> [fmt |-> "open loop", args |-> << >>]
       [] d = 512 -> [fmt |-> "closed loop", args |-> << >>]
       [] d = 1024 -> [fmt |-> "open loop, driving", args |-> << >>]
       [] d = 2048 -> [fmt |-> "open loop, system fault", args |-> << >>]
       [] d = 4096 -> [fmt |-> "closed loop, O2 sensor fault", args |-> << >>]
       [] OTHER -> [fmt |-> "unknown: %i", args |-> <<d>>]

\* the formula without its first test
fuel_system2_status_formula_used(data, system) ==
  LET d == LowByteMask(data)
  IN CASE d = 1 -> [fmt |-> "open loop", args |-> << >>]
       [] d = 2 -> [fmt |-> "closed loop", args |-> << >>]
       [] d = 4 -> [fmt |-> "open loop, driving", args |-> << >>]
       [] d = 8 -> [fmt |-> "open loop, system fault", args |-> << >>]
       [] d = 16 -> [fmt |-> "closed loop, O2 sensor fault", args |-> << >>]
       [] OTHER -> [fmt |-> "unknown: %i", args |-> <<d>>]

fuel_system2_status_formula(data, system) ==
  LET d == LowByteMask(data)
  IN CASE d = 0 -> [fmt |-> "unused", args |-> << >>]
       [] d = 1 -> [fmt |-> "open loop", args |-> << >>]
       [] d = 2 -> [fmt |-> "closed loop", args |-> << >>]
       [] d = 4 -> [fmt |-> "open loop, driving", args |-> << >>]
       [] d = 8 -> [fmt |-> "open loop, system fault", args |-> << >>]
       [] d = 16 -> [fmt |-> "closed loop, O2 sensor fault", args |-> << >>]
       [] OTHER -> [fmt |-> "unknown: %i", args |-> <<d>>]

\* data & 0x0700 of the two's complement int data
SecondaryAirMask(data) == ((data \div 256) % 8) * 256

secondary_air_status_formula(data, system) ==
  LET d == SecondaryAirMask(data)
  IN CASE d = 256 -> [fmt |-> "upstream of 1st cat. conv.", args |-> << >>]
       [] d = 512 -> [fmt |-> "downstream of 1st cat. conv.", args |-> << >>]
       [] d = 1024 -> [fmt |-> "atmosphere/off", args |-> << >>]
       [] OTHER -> [fmt |-> "Not supported", args |-> << >>]

\* the row of sensors[] that polls the secondary air status
SecondaryAirRow ==
  [ formula |-> "secondary_air_status_formula", command |-> <<"0","1","1","2">>,
    bytes |-> 1 ]

DecimalDigits == <<"0","1","2","3","4","5","6","7","8","9">>

RECURSIVE FormatNat(_)
\* the decimal digits of n >= 0, most significant first
FormatNat(n) ==
  IF n < 10 THEN <<DecimalDigits[n + 1]>>
  ELSE Append(FormatNat(n \div 10), DecimalDigits[(n % 10) + 1])

\* what printf's %i writes
FormatInt(n) == IF n < 0 THEN <<"-">> \o FormatNat(-n) ELSE FormatNat(n)

\* sprintf(buf, fmt, args): the text left in buf, the digits of a number one
\* by one and each literal piece of the format whole
Sprintf(display) ==
  CASE display.fmt = "%i r/min" -> Append(FormatInt(display.args[1]), " r/min")
    [] display.fmt = "%i rpm" -> Append(FormatInt(display.args[1]), " rpm")
    [] display.fmt = "unknown: %i" -> <<"unknown: ">> \o FormatInt(display.args[1])
    [] OTHER -> <<display.fmt>>

\* sensor->formula(data, buf)
ApplyFormula(formula, data, system) ==
  CASE formula = "engine_rpm_formula" -> engine_rpm_formula(data, system)
    [] formula = "coolant_temp_formula" -> coolant_temp_formula(data, system)
    [] formula = "o2_sensor_wrv_formula" -> o2_sensor_wrv_formula(data, system)

(***************************************************************************)
(* The sensor table: three rows of sensors[] (one of each payload width),  *)
(* in table order, indexed from 0.                                         *)
(***************************************************************************)
sensors ==
  << [formula |-> "engine_rpm_formula", command |-> <<"0","1","0","C">>, bytes |-> 2],
     [formula |-> "coolant_temp_formula", command |-> <<"0","1","0","5">>, bytes |-> 1],
     [formula |-> "o2_sensor_wrv_formula", command |-> <<"0","1","2","4">>, bytes |-> 4] >>

\* display_sensor_dialog: for (i = 0; sensors[i].formula; i++); num_of_sensors = i
num_of_sensors == Len(sensors)
SensorIds == 0 .. (num_of_sensors - 1)
SensorRow(i) == sensors[i + 1]

\* the sensor_proc / toggle_proc pairs of sensor_dialog, by d1
Slots == 0 .. (PageSize - 1)

\* page_flipper_proc: last_page
last_page ==
  IF num_of_sensors % PageSize # 0
    THEN num_of_sensors \div PageSize
    ELSE num_of_sensors \div PageSize - 1

\* reset_chip's command
TextReset == <<"a","t","z">>

(***************************************************************************)
(* State                                                                   *)
(***************************************************************************)
VARIABLES
  \* sensors[]: the mutable columns
  enabled, screen_buf,
  \* file-scope variables
  device_connected, reset_hardware, num_of_disabled_sensors, sensors_on_page,
  current_page, inst_refresh_rate, avg_refresh_rate, refresh_time,
  \* sensor_proc statics
  current_sensor, new_page, receiving_response, num_of_sensors_timed_out,
  ignore_device_not_connected, retry_attempts, vehicle_response,
  \* calculate_refresh_rate statics
  initialization_occured, reset_on_all_off_occured, sensors_on_counter,
  avg_refresh_rate_accumulator,
  \* sensor_dialog: sensor_proc objects (dp3, D_DISABLED, d2), toggle_proc
  \* objects (D_DISABLED, d2), toggle_all_proc (d2), by slot
  dp3, sp_disabled, sp_d2, tg_disabled, tg_d2, ta_d2,
  \* serial collaborator and options
  comport_status, serial_time_out, serial_timer_running,
  system_of_measurements,
  \* the handler is stuck in a loop that never ends
  hung,
  \* the sensor the last command was sent for (NULL: none, or the reset)
  cmd_sensor,
  \* what the last handler did: alerts raised, commands sent, and so on
  out,
  \* the run of equal exchange conclusions that the last conclusion extends
  run,
  \* find_valid_response, one loop pass at a time
  fv_response, fv_pc, fv_in_ptr, fv_buf, fv_passes,
  \* a decode formula on its own: the formula, its arguments, and buf
  dec_formula, dec_data, dec_system, dec_buf,
  \* what the adapter, the timers and the user do in this behaviour
  env

progVars ==
  << enabled, screen_buf, device_connected, reset_hardware,
     num_of_disabled_sensors, sensors_on_page, current_page, inst_refresh_rate,
     avg_refresh_rate, refresh_time, current_sensor, new_page,
     receiving_response, num_of_sensors_timed_out, ignore_device_not_connected,
     retry_attempts, vehicle_response, initialization_occured,
     reset_on_all_off_occured, sensors_on_counter, avg_refresh_rate_accumulator,
     dp3, sp_disabled, sp_d2, tg_disabled, tg_d2, ta_d2, comport_status,
     serial_time_out, serial_timer_running, system_of_measurements, hung,
     cmd_sensor, out, run >>

fvVars == << fv_response, fv_pc, fv_in_ptr, fv_buf, fv_passes >>

decVars == << dec_formula, dec_data, dec_system, dec_buf >>

vars == << progVars, fvVars, decVars, env >>

\* the program state as one record, for the handlers to thread through
St ==
  [ enabled |-> enabled, screen_buf |-> screen_buf,
    device_connected |-> device_connected, reset_hardware |-> reset_hardware,
    num_of_disabled_sensors |-> num_of_disabled_sensors,
    sensors_on_page |-> sensors_on_page, current_page |-> current_page,
    inst_refresh_rate |-> inst_refresh_rate,
    avg_refresh_rate |-> avg_refresh_rate, refresh_time |-> refresh_time,
    current_sensor |-> current_sensor, new_page |-> new_page,
    receiving_response |-> receiving_response,
    num_of_sensors_timed_out |-> num_of_sensors_timed_out,
    ignore_device_not_connected |-> ignore_device_not_connected,
    retry_attempts |-> retry_attempts, vehicle_response |-> vehicle_response,
    initialization_occured |-> initialization_occured,
    reset_on_all_off_occured |-> reset_on_all_off_occured,
    sensors_on_counter |-> sensors_on_counter,
    avg_refresh_rate_accumulator |-> avg_refresh_rate_accumulator,
    dp3 |-> dp3, sp_disabled |-> sp_disabled, sp_d2 |-> sp_d2,
    tg_disabled |-> tg_disabled, tg_d2 |-> tg_d2, ta_d2 |-> ta_d2,
    comport_status |-> comport_status, serial_time_out |-> serial_time_out,
    serial_timer_running |-> serial_timer_running,
    system_of_measurements |-> system_of_measurements,
    hung |-> hung, cmd_sensor |-> cmd_sensor, out |-> out, run |-> run ]

\* the state a handler leaves
Commit(s) ==
  /\ enabled' = s.enabled
  /\ screen_buf' = s.screen_buf
  /\ device_connected' = s.device_connected
  /\ reset_hardware' = s.reset_hardware
  /\ num_of_disabled_sensors' = s.num_of_disabled_sensors
  /\ sensors_on_page' = s.sensors_on_page
  /\ current_page' = s.current_page
  /\ inst_refresh_rate' = s.inst_refresh_rate
  /\ avg_refresh_rate' = s.avg_refresh_rate
  /\ refresh_time' = s.refresh_time
  /\ current_sensor' = s.current_sensor
  /\ new_page' = s.new_page
  /\ receiving_response' = s.receiving_response
  /\ num_of_sensors_timed_out' = s.num_of_sensors_timed_out
  /\ ignore_device_not_connected' = s.ignore_device_not_connected
  /\ retry_attempts' = s.retry_attempts
  /\ vehicle_response' = s.vehicle_response
  /\ initialization_occured' = s.initialization_occured
  /\ reset_on_all_off_occured' = s.reset_on_all_off_occured
  /\ sensors_on_counter' = s.sensors_on_counter
  /\ avg_refresh_rate_accumulator' = s.avg_refresh_rate_accumulator
  /\ dp3' = s.dp3
  /\ sp_disabled' = s.sp_disabled
  /\ sp_d2' = s.sp_d2
  /\ tg_disabled' = s.tg_disabled
  /\ tg_d2' = s.tg_d2
  /\ ta_d2' = s.ta_d2
  /\ comport_status' = s.comport_status
  /\ serial_time_out' = s.serial_time_out
  /\ serial_timer_running' = s.serial_timer_running
  /\ system_of_measurements' = s.system_of_measurements
  /\ hung' = s.hung
  /\ cmd_sensor' = s.cmd_sensor
  /\ out' = s.out
  /\ run' = s.run

(***************************************************************************)
(* What a handler did (out) and the run of conclusions (run)               *)
(***************************************************************************)
AlertBusError == "Bus Error: OBDII bus is shorted to Vbatt or Ground."
AlertBusBusy == "OBD Bus Busy: could not read sensor"
AlertDataError == "Data Error: there has been a loss of data."
AlertSerialLink == "Serial Link Error: please check connection"
AlertNotResponding == "Device is not responding."
AlertPortNotReady == "Port is not ready."

ConclNone == "none"
ConclTimeout == "timeout"
ConclDiscarded == "discarded"

\* the prompts sensor_proc has read since the last page switch: none, the
\* first of them, or a later one; or the page was not switched since the
\* dialog started
NoSwitch == "no switch"
NoPrompt == "none"
FirstPrompt == "first"
LaterPrompt == "later"

PromptRead(s) ==
  [s EXCEPT !.out.since_switch =
              IF @ = NoSwitch THEN NoSwitch
              ELSE IF @ = NoPrompt THEN FirstPrompt ELSE LaterPrompt]

\* read_comport was not called
NotRead == "not read"

\* a fresh account of the handler op on slot k that starts in state s, with
\* the cursor, the retry counter and the ignore flag it starts from; the
\* tally of prompts since the page switch and the sensor whose failure last
\* took from the retry counter are carried on
Begin(s, op, k) ==
  [s EXCEPT !.out =
     [ op |-> op, slot |-> k, alerts |-> << >>, sent |-> << >>, polled |-> NULL,
       fed |-> << >>, concl |-> ConclNone, raw |-> << >>,
       cursor0 |-> s.current_sensor, retry0 |-> s.retry_attempts,
       ignore0 |-> s.ignore_device_not_connected,
       since_switch |-> s.out.since_switch, read |-> NotRead,
       retried |-> s.out.retried ]]

\* response_status = read_comport(buf)
ReadComport(s, rd) == [s EXCEPT !.out.read = rd.status]

Alert(s, text) == [s EXCEPT !.out.alerts = Append(@, text)]

\* send_command(text) on behalf of sensor id (NULL: of no sensor)
SendCommand(s, text, id) ==
  [s EXCEPT !.out.sent = Append(@, text), !.out.polled = id, !.cmd_sensor = id]

NoRun == [kind |-> ConclNone, n |-> 0, alerts |-> 0]
MaxRun == NUM_OF_RETRIES + 1

\* the conclusions the retry and timeout policies count
RunKinds ==
  {BUS_BUSY, DATA_ERROR, DATA_ERROR2, SERIAL_ERROR, RUBBISH, ConclTimeout}

\* the alerts of a handler that belong to the retry and timeout policy
PolicyAlerts(alerts) ==
  Cardinality({i \in 1..Len(alerts) : alerts[i] # AlertPortNotReady})

\* the policy's counter is where a run of kind starts from
Fresh(pre, kind) ==
  IF kind = ConclTimeout THEN pre.num_of_sensors_timed_out = 0
  ELSE pre.retry_attempts = NUM_OF_RETRIES

\* post is what the handler made of pre, concluding an exchange with kind:
\* the run of consecutive exchanges of that kind it extends or starts.  Only
\* runs that start with the policy's counter fresh are followed.
ExtendRun(pre, post, kind) ==
  LET same == pre.run.kind = kind /\ pre.run.n < MaxRun
  IN IF kind \in RunKinds /\ (same \/ Fresh(pre, kind))
       THEN [post EXCEPT !.run =
               [ kind |-> kind,
                 n |-> IF same THEN pre.run.n + 1 ELSE 1,
                 alerts |-> (IF same THEN pre.run.alerts ELSE 0)
                              + PolicyAlerts(post.out.alerts) ]]
       ELSE [post EXCEPT !.run = NoRun]

(***************************************************************************)
(* Rates: floats carried as fractions <<n, d>> in lowest terms;            *)
(* <<1, 0>> is +inf and <<0, 0>> is NaN, as float division gives them.     *)
(***************************************************************************)
RECURSIVE GCD(_, _)
GCD(a, b) == IF b = 0 THEN a ELSE GCD(b, a % b)

RateZero == <<0, 1>>
RateInf == <<1, 0>>
RateNaN == <<0, 0>>

\* n/d for n >= 0, d >= 0
Rate(n, d) ==
  IF d = 0 THEN (IF n = 0 THEN RateNaN ELSE RateInf)
  ELSE <<n \div GCD(n, d), d \div GCD(n, d)>>

RateAdd(a, b) ==
  IF a = RateNaN \/ b = RateNaN THEN RateNaN
  ELSE IF a = RateInf \/ b = RateInf THEN RateInf
  ELSE Rate(a[1] * b[2] + b[1] * a[2], a[2] * b[2])

\* a / k for the int k >= 0
RateDivInt(a, k) ==
  IF a = RateNaN THEN RateNaN
  ELSE IF a = RateInf THEN RateInf
  ELSE Rate(a[1], a[2] * k)

\* the rate with the period taken in milliseconds
InstRatePerMs(ticks) == Rate(1, ticks * REFRESH_RATE_PRECISION)

\* 1/(refresh_time*REFRESH_RATE_PRECISION*0.001)
InstRate(ticks) == Rate(1000, ticks * REFRESH_RATE_PRECISION)

(***************************************************************************)
(* calculate_refresh_rate (sensors.c 276-327)                              *)
(***************************************************************************)
\* static int num_of_sensors_off = 0: never assigned
num_of_sensors_off == 0

\* the window of the average is full
WindowFull(counter, on_page, disabled) == ~(counter < on_page - disabled)

calculate_refresh_rate(s0, sensor_state) ==
  LET s == [s0 EXCEPT !.out.fed = Append(@, sensor_state)]
  IN IF ~s.initialization_occured
       THEN IF sensor_state = SENSOR_ACTIVE
              THEN [s EXCEPT !.refresh_time = 0, !.initialization_occured = TRUE]
              ELSE s
     ELSE IF num_of_sensors_off >= s.sensors_on_page /\ ~s.reset_on_all_off_occured
       THEN [s EXCEPT !.inst_refresh_rate = RateZero,
                      !.avg_refresh_rate = RateZero,
                      !.reset_on_all_off_occured = TRUE]
     ELSE IF sensor_state # SENSOR_OFF
       THEN LET inst == InstRate(s.refresh_time)
                s1 == [s EXCEPT !.reset_on_all_off_occured = FALSE,
                                !.inst_refresh_rate = inst]
                s2 == IF ~WindowFull(s1.sensors_on_counter, s1.sensors_on_page,
                                     s1.num_of_disabled_sensors)
                        THEN [s1 EXCEPT !.sensors_on_counter = @ + 1,
                                        !.avg_refresh_rate_accumulator =
                                           RateAdd(@, inst)]
                        ELSE [s1 EXCEPT !.avg_refresh_rate =
                                           RateDivInt(s1.avg_refresh_rate_accumulator,
                                                      s1.sensors_on_counter),
                                        !.avg_refresh_rate_accumulator = RateZero,
                                        !.sensors_on_counter = 0]
            IN IF sensor_state = SENSOR_ACTIVE
                 THEN [s2 EXCEPT !.refresh_time = 0]
                 ELSE s2
     ELSE s

(***************************************************************************)
(* Serial timer (serial collaborator)                                      *)
(***************************************************************************)
start_serial_timer(s) ==
  [s EXCEPT !.serial_time_out = FALSE, !.serial_timer_running = TRUE]

stop_serial_timer(s) ==
  [s EXCEPT !.serial_time_out = FALSE, !.serial_timer_running = FALSE]

(***************************************************************************)
(* sensor_proc, MSG_IDLE (sensors.c 785-796, 872-1030)                     *)
(***************************************************************************)
\* the cursor stepped without the wrap to 0
NextSensorNoWrap(cur, on_page) == cur + 1

\* current_sensor = (current_sensor == sensors_on_page - 1) ? 0 : current_sensor + 1
NextSensor(cur, on_page) == IF cur = on_page - 1 THEN 0 ELSE cur + 1

\* the cursor left on the sensor it is on
CursorStays(s) == s

AdvanceCursor(s) ==
  [s EXCEPT !.current_sensor = NextSensor(s.current_sensor, s.sensors_on_page)]

\* if (d->flags & D_DISABLED) strcpy(sensor->screen_buf, "not monitoring")
AfterSwitch(s, k) ==
  IF s.sp_disabled[k]
    THEN [s EXCEPT !.screen_buf[s.dp3[k]] = TextNotMonitoring]
    ELSE s

\* if (num_of_sensors_timed_out >= SENSORS_TO_TIME_OUT)
TimeOutLimitReached(n) == n >= SENSORS_TO_TIME_OUT

\* the alert raised whatever the user answered before
MayAlertAlways(ignore) == TRUE

\* if (!ignore_device_not_connected)
MayAlertNotResponding(ignore) == ~ignore

\* while (comport.status == NOT_OPEN) ...: the user ignores at once, or
\* configures a port that opens, or configures one that does not and ignores
PortLoop(s, choice) ==
  IF s.comport_status # NOT_OPEN THEN s
  ELSE CASE choice = "ignore" ->
              [Alert(s, AlertPortNotReady) EXCEPT !.comport_status = USER_IGNORED]
         [] choice = "configure" ->
              [Alert(s, AlertPortNotReady) EXCEPT !.comport_status = READY]
         [] choice = "configure, ignore" ->
              [Alert(Alert(s, AlertPortNotReady), AlertPortNotReady)
                 EXCEPT !.comport_status = USER_IGNORED]

\* if (serial_time_out) { ... } (985-1020)
TimeoutBranch(s, k, in) ==
  LET s1 == [s EXCEPT !.receiving_response = FALSE,
                      !.screen_buf[s.dp3[k]] = TextNA,
                      !.out.concl = ConclTimeout]
      s2 == IF TimeOutLimitReached(s1.num_of_sensors_timed_out)
              THEN LET r == [s1 EXCEPT !.num_of_sensors_timed_out = 0,
                                       !.device_connected = FALSE]
                   IN IF MayAlertNotResponding(r.ignore_device_not_connected)
                        THEN LET a == Alert(r, AlertNotResponding)
                             IN IF in.answer = 2
                                  THEN [a EXCEPT !.comport_status = in.options]
                                ELSE IF in.answer = 3
                                  THEN [a EXCEPT !.ignore_device_not_connected = TRUE]
                                ELSE a
                        ELSE r
              ELSE [s1 EXCEPT !.num_of_sensors_timed_out = @ + 1]
  IN AdvanceCursor(stop_serial_timer(PortLoop(s2, in.port)))

\* the check that never finds the timer expired
TimeoutCheckNever(s, k, in) == AfterSwitch(s, k)

TimeoutCheck(s, k, in) ==
  IF s.serial_time_out THEN TimeoutBranch(s, k, in) ELSE AfterSwitch(s, k)

\* the retries taken as exhausted one failure early
RetryExhaustedAtOne(retries) == ~(retries > 1)

\* the retries never taken as exhausted
RetryNeverExhausted(retries) == FALSE

\* the else of if (retry_attempts > 0)
RetryExhausted(retries) == ~(retries > 0)

RetryAlert(response_type) ==
  CASE response_type = BUS_BUSY -> <<AlertBusBusy>>
    [] response_type \in {DATA_ERROR, DATA_ERROR2} -> <<AlertDataError>>
    [] response_type \in {SERIAL_ERROR, RUBBISH} -> <<AlertSerialLink>>
    [] OTHER -> << >>

\* the failure handling with "NO DATA" taken for a failure to retry
FailureBranchNoDataRetried(s, k, response_type) ==
  LET s1 == calculate_refresh_rate(
              [s EXCEPT !.screen_buf[s.dp3[k]] = TextNA], SENSOR_NA)
  IN IF response_type = BUS_ERROR
       THEN [Alert(s1, AlertBusError) EXCEPT !.retry_attempts = NUM_OF_RETRIES]
     ELSE IF ~RetryExhausted(s1.retry_attempts)
       THEN [s1 EXCEPT !.retry_attempts = @ - 1]
     ELSE [s1 EXCEPT !.retry_attempts = NUM_OF_RETRIES,
                     !.out.alerts = @ \o RetryAlert(response_type)]

\* 940-980: the exchange failed with response_type
FailureBranch(s, k, response_type) ==
  LET s1 == calculate_refresh_rate(
              [s EXCEPT !.screen_buf[s.dp3[k]] = TextNA], SENSOR_NA)
  IN IF response_type = ERR_NO_DATA
       THEN [AdvanceCursor(s1) EXCEPT !.retry_attempts = NUM_OF_RETRIES]
     ELSE IF response_type = BUS_ERROR
       THEN [Alert(s1, AlertBusError) EXCEPT !.retry_attempts = NUM_OF_RETRIES]
     ELSE IF ~RetryExhausted(s1.retry_attempts)
       THEN [s1 EXCEPT !.retry_attempts = @ - 1]
     ELSE [s1 EXCEPT !.retry_attempts = NUM_OF_RETRIES,
                     !.out.alerts = @ \o RetryAlert(response_type)]

\* 926-934: buf holds the valid response
SuccessBranch(s, k, buf, in) ==
  LET id == s.dp3[k]
      s1 == calculate_refresh_rate(s, SENSOR_ACTIVE)
      data == IF Len(buf) >= 4
                THEN RawData(buf, SensorRow(id).bytes, in.longBits)
                ELSE in.stale
      s2 == [s1 EXCEPT !.screen_buf[id] =
                          ApplyFormula(SensorRow(id).formula, data,
                                       s1.system_of_measurements),
                       !.out.raw = <<data>>,
                       !.retry_attempts = NUM_OF_RETRIES]
  IN AdvanceCursor(s2)

\* 909-981: read_comport gave PROMPT with in.rd.buf
PromptBranch(s, k, in) ==
  LET s1 == stop_serial_timer(
              [PromptRead(s) EXCEPT !.device_connected = TRUE,
                                    !.num_of_sensors_timed_out = 0,
                                    !.receiving_response = FALSE])
  IN IF s1.new_page
       THEN AfterSwitch([s1 EXCEPT !.out.concl = ConclDiscarded], k)
     ELSE
       LET text == StrCat(s1.vehicle_response, in.rd.buf)
           response_type == process_response(SensorRow(s.dp3[k]).command, text)
           s2 == [s1 EXCEPT !.vehicle_response = text,
                            !.out.concl = response_type]
       IN IF response_type = HEX_DATA
            THEN LET found == find_valid_response(text)
                 IN IF ~found.returns THEN [s2 EXCEPT !.hung = TRUE]
                    ELSE IF found.found THEN SuccessBranch(s2, k, found.buf, in)
                    ELSE FailureBranch(s2, k, ERR_NO_DATA)
            ELSE FailureBranch(s2, k, response_type)

\* the send that leaves new_page as it was
SendBranchKeepsPage(s, k) ==
  LET id == s.dp3[k]
      s1 == SendCommand(s, SensorRow(id).command, id)
  IN [start_serial_timer(s1) EXCEPT !.receiving_response = TRUE,
                                    !.vehicle_response = << >>]

\* 889-893
SendBranch(s, k) ==
  LET id == s.dp3[k]
      s1 == SendCommand(s, SensorRow(id).command, id)
  IN [start_serial_timer(s1) EXCEPT !.new_page = FALSE,
                                    !.receiving_response = TRUE,
                                    !.vehicle_response = << >>]

ConclReset == "reset"

\* 785-793; reset_chip() is the collaborator's: it sends the reset command
ResetBranch(s) ==
  [SendCommand(s, TextReset, NULL) EXCEPT !.reset_hardware = FALSE,
                                          !.receiving_response = FALSE,
                                          !.out.concl = ConclReset]

sensor_proc_idle(s, k, in) ==
  IF s.reset_hardware THEN ResetBranch(s)
  ELSE IF s.dp3[k] = NULL THEN s
  ELSE IF k # s.current_sensor THEN AfterSwitch(s, k)
  ELSE IF s.comport_status = READY
    THEN LET s1 == IF s.sp_disabled[k]
                     THEN calculate_refresh_rate(s, SENSOR_OFF)
                     ELSE s
         IN IF ~s1.receiving_response
              THEN IF s1.sp_disabled[k]
                     THEN [AdvanceCursor(s1) EXCEPT !.receiving_response = FALSE]
                     ELSE TimeoutCheck(SendBranch(s1, k), k, in)
            ELSE LET s2 == ReadComport(s1, in.rd)
                 IN IF s2.sp_disabled[k] THEN AdvanceCursor(s2)
                    ELSE IF in.rd.status = DATA
                      THEN TimeoutCheck(
                             [s2 EXCEPT !.vehicle_response = StrCat(@, in.rd.buf)],
                             k, in)
                    ELSE IF in.rd.status = PROMPT THEN PromptBranch(s2, k, in)
                    ELSE TimeoutCheck(s2, k, in)
  ELSE TimeoutCheck(s, k, in)

(***************************************************************************)
(* MSG_TOGGLE, MSG_UPDATE and MSG_DRAW handlers; fill_sensors              *)
(***************************************************************************)
\* toggle_proc, MSG_TOGGLE (606-624)
toggle_proc_toggle(s, k, c) ==
  IF (c = k \/ (c = -2 /\ s.tg_d2[k] = 1) \/ (c = -1 /\ s.tg_d2[k] = 0))
       /\ ~s.tg_disabled[k]
    THEN [s EXCEPT !.tg_d2[k] = IF @ = 0 THEN 1 ELSE 0]
    ELSE s

\* the condition of sensor_proc's MSG_TOGGLE (835)
ToggleApplies(k, c, disabled) ==
  k = c \/ (c = -2 /\ ~disabled) \/ (c = -1 /\ disabled)

\* sensor_proc, MSG_TOGGLE (834-856, 1025-1030)
sensor_proc_toggle(s, k, c) ==
  IF s.dp3[k] = NULL THEN s
  ELSE IF ToggleApplies(k, c, s.sp_disabled[k])
    THEN IF s.sp_disabled[k]
           THEN [s EXCEPT !.sp_disabled[k] = FALSE,
                          !.enabled[s.dp3[k]] = TRUE,
                          !.num_of_disabled_sensors = @ - 1,
                          !.screen_buf[s.dp3[k]] = TextNA]
           ELSE LET s1 == [s EXCEPT !.sp_disabled[k] = TRUE,
                                    !.enabled[s.dp3[k]] = FALSE,
                                    !.num_of_disabled_sensors = @ + 1,
                                    !.screen_buf[s.dp3[k]] = TextNotMonitoring]
                IN IF s1.num_of_disabled_sensors = s1.sensors_on_page
                     THEN [s1 EXCEPT !.num_of_sensors_timed_out = 0]
                     ELSE s1
    ELSE AfterSwitch(s, k)

\* toggle_all_proc, MSG_TOGGLE (671-685)
toggle_all_proc_toggle(s, c) ==
  IF c = -1 \/ (c >= 0 /\ s.num_of_disabled_sensors <= 0)
    THEN [s EXCEPT !.ta_d2 = 1]
  ELSE IF c = -2 \/ (c >= 0 /\ s.num_of_disabled_sensors >= s.sensors_on_page)
    THEN [s EXCEPT !.ta_d2 = 0]
  ELSE s

RECURSIVE ToggleSlots(_, _, _)
\* MSG_TOGGLE to the toggle_proc and sensor_proc of slots k, k+1, ...
ToggleSlots(s, k, c) ==
  IF k >= PageSize THEN s
  ELSE ToggleSlots(sensor_proc_toggle(toggle_proc_toggle(s, k, c), k, c), k + 1, c)

\* broadcast_dialog_message(MSG_TOGGLE, c), in sensor_dialog's order
broadcast_toggle(s, c) == toggle_all_proc_toggle(ToggleSlots(s, 0, c), c)

\* the update of a toggle button that leaves the count of disabled sensors
\* as it is
ToggleUpdateKeepsCount(s, k) ==
  [s EXCEPT !.tg_disabled[k] = (k >= s.sensors_on_page)]

\* toggle_proc, MSG_UPDATE (578-604)
toggle_proc_update(s, k) ==
  IF k >= s.sensors_on_page
    THEN [s EXCEPT !.tg_disabled[k] = TRUE,
                   !.num_of_disabled_sensors = IF s.tg_d2[k] = 0 THEN @ - 1 ELSE @]
    ELSE [s EXCEPT !.num_of_disabled_sensors =
                      IF s.tg_disabled[k] /\ s.tg_d2[k] = 0 THEN @ + 1 ELSE @,
                   !.tg_disabled[k] = FALSE]

\* the page reset that leaves the cursor where it was
PageResetKeepsCursor(s) ==
  [s EXCEPT !.num_of_sensors_timed_out = 0,
            !.new_page = TRUE,
            !.out.since_switch = NoPrompt,
            !.inst_refresh_rate = RateZero,
            !.avg_refresh_rate = RateZero,
            !.refresh_time = 0]

\* what MSG_UPDATE resets in the first sensor_proc (813-822)
PageReset(s) ==
  [s EXCEPT !.current_sensor = 0,
            !.num_of_sensors_timed_out = 0,
            !.new_page = TRUE,
            !.out.since_switch = NoPrompt,
            !.inst_refresh_rate = RateZero,
            !.avg_refresh_rate = RateZero,
            !.refresh_time = 0]

\* sensor_proc, MSG_UPDATE (795-796, 812-826, 1025-1030)
sensor_proc_update(s, k) ==
  IF s.dp3[k] = NULL THEN s
  ELSE LET s1 == IF k = 0 THEN PageReset(s) ELSE s
           s2 == IF s1.enabled[s1.dp3[k]] = s1.sp_disabled[k]
                   THEN [s1 EXCEPT !.sp_d2[k] = 1]
                   ELSE s1
       IN AfterSwitch(s2, k)

\* toggle_all_proc, MSG_UPDATE (655-669)
toggle_all_proc_update(s) ==
  IF s.sensors_on_page = 0 THEN s ELSE toggle_all_proc_toggle(s, 0)

RECURSIVE UpdateSlots(_, _)
UpdateSlots(s, k) ==
  IF k >= PageSize THEN s
  ELSE UpdateSlots(sensor_proc_update(toggle_proc_update(s, k), k), k + 1)

\* broadcast_dialog_message(MSG_UPDATE, 0), in sensor_dialog's order
broadcast_update(s) == toggle_all_proc_update(UpdateSlots(s, 0))

\* the sensor fill_sensors gives slot k on page_number, NULL when there is none
SlotSensor(k, page_number) ==
  IF k + page_number * PageSize < num_of_sensors
    THEN k + page_number * PageSize
    ELSE NULL

\* fill_sensors (458-482)
fill_sensors(s, page_number) ==
  [s EXCEPT !.dp3 = [k \in Slots |-> SlotSensor(k, page_number)],
            !.screen_buf =
               [i \in SensorIds |->
                  IF \E k \in Slots : SlotSensor(k, page_number) = i
                    THEN TextNA ELSE s.screen_buf[i]],
            !.sensors_on_page =
               Cardinality({k \in Slots : SlotSensor(k, page_number) # NULL})]

\* current_page after the click, clamped (542-550)
FlippedPage(page, d1) ==
  LET p == IF d1 = -1 THEN page - 1 ELSE IF d1 = 1 THEN page + 1 ELSE page
  IN IF p < 0 THEN 0 ELSE IF p > last_page THEN last_page ELSE p

\* page_flipper_proc on D_CLOSE (540-556)
page_flipper_proc_close(s, d1) ==
  LET s1 == [s EXCEPT !.current_page = FlippedPage(s.current_page, d1)]
  IN broadcast_update(fill_sensors(s1, s1.current_page))

\* sensor_proc, MSG_DRAW (858-870)
sensor_proc_draw(s, k) ==
  IF s.sp_d2[k] # 0
    THEN broadcast_toggle([s EXCEPT !.sp_d2[k] = 0], k)
    ELSE s

\* toggle_all_proc on D_CLOSE (695-703)
toggle_all_proc_close(s) ==
  IF s.ta_d2 = 0 THEN broadcast_toggle(s, -1) ELSE broadcast_toggle(s, -2)

(***************************************************************************)
(* MSG_START and display_sensor_dialog                                     *)
(***************************************************************************)
\* toggle_proc, MSG_START (568-604)
toggle_proc_start(s, k) == toggle_proc_update([s EXCEPT !.tg_d2[k] = 1], k)

\* sensor_proc, MSG_START (795-826)
sensor_proc_start(s, k) ==
  IF s.dp3[k] = NULL THEN s
  ELSE LET s1 == IF k = 0
                   THEN [stop_serial_timer(s) EXCEPT
                           !.receiving_response = FALSE,
                           !.device_connected = FALSE,
                           !.ignore_device_not_connected = FALSE,
                           !.num_of_disabled_sensors = 0]
                   ELSE s
       IN sensor_proc_update(
            [s1 EXCEPT !.sp_d2[k] = 0, !.sp_disabled[k] = FALSE], k)

\* toggle_all_proc, MSG_START (650-669)
toggle_all_proc_start(s) == toggle_all_proc_update([s EXCEPT !.ta_d2 = 1])

RECURSIVE StartSlots(_, _)
StartSlots(s, k) ==
  IF k >= PageSize THEN s
  ELSE StartSlots(sensor_proc_start(toggle_proc_start(s, k), k), k + 1)

\* display_sensor_dialog up to do_dialog's MSG_START (252-269); config is
\* what load_sensor_states reads
display_sensor_dialog(s, config) ==
  LET s1 == [s EXCEPT !.current_page = 0, !.reset_hardware = TRUE,
                      !.enabled = config]
  IN [toggle_all_proc_start(StartSlots(fill_sensors(s1, 0), 0))
        EXCEPT !.out.since_switch = NoSwitch]

\* the variables as the program is loaded (97-107, 772-778, 278-282)
ProgramStart(status) ==
  [ enabled |-> [i \in SensorIds |-> TRUE],
    screen_buf |-> [i \in SensorIds |-> TextEmpty],
    device_connected |-> FALSE, reset_hardware |-> TRUE,
    num_of_disabled_sensors |-> 0, sensors_on_page |-> 0, current_page |-> 0,
    inst_refresh_rate |-> RateZero, avg_refresh_rate |-> RateZero,
    refresh_time |-> 0, current_sensor |-> 0, new_page |-> FALSE,
    receiving_response |-> FALSE, num_of_sensors_timed_out |-> 0,
    ignore_device_not_connected |-> FALSE, retry_attempts |-> NUM_OF_RETRIES,
    vehicle_response |-> << >>, initialization_occured |-> FALSE,
    reset_on_all_off_occured |-> FALSE, sensors_on_counter |-> 0,
    avg_refresh_rate_accumulator |-> RateZero,
    dp3 |-> [k \in Slots |-> NULL], sp_disabled |-> [k \in Slots |-> FALSE],
    sp_d2 |-> [k \in Slots |-> 0], tg_disabled |-> [k \in Slots |-> FALSE],
    tg_d2 |-> [k \in Slots |-> 1], ta_d2 |-> 1,
    comport_status |-> status, serial_time_out |-> FALSE,
    serial_timer_running |-> FALSE, system_of_measurements |-> METRIC,
    hung |-> FALSE, cmd_sensor |-> NULL,
    out |-> [ op |-> "MSG_START", slot |-> 0, alerts |-> << >>, sent |-> << >>,
              polled |-> NULL, fed |-> << >>, concl |-> ConclNone, raw |-> << >>,
              cursor0 |-> 0, retry0 |-> NUM_OF_RETRIES, ignore0 |-> FALSE,
              since_switch |-> NoSwitch, read |-> NotRead, retried |-> NULL ],
    run |-> NoRun ]

\* the state s, as an initial condition
Assign(s) ==
  /\ enabled = s.enabled
  /\ screen_buf = s.screen_buf
  /\ device_connected = s.device_connected
  /\ reset_hardware = s.reset_hardware
  /\ num_of_disabled_sensors = s.num_of_disabled_sensors
  /\ sensors_on_page = s.sensors_on_page
  /\ current_page = s.current_page
  /\ inst_refresh_rate = s.inst_refresh_rate
  /\ avg_refresh_rate = s.avg_refresh_rate
  /\ refresh_time = s.refresh_time
  /\ current_sensor = s.current_sensor
  /\ new_page = s.new_page
  /\ receiving_response = s.receiving_response
  /\ num_of_sensors_timed_out = s.num_of_sensors_timed_out
  /\ ignore_device_not_connected = s.ignore_device_not_connected
  /\ retry_attempts = s.retry_attempts
  /\ vehicle_response = s.vehicle_response
  /\ initialization_occured = s.initialization_occured
  /\ reset_on_all_off_occured = s.reset_on_all_off_occured
  /\ sensors_on_counter = s.sensors_on_counter
  /\ avg_refresh_rate_accumulator = s.avg_refresh_rate_accumulator
  /\ dp3 = s.dp3
  /\ sp_disabled = s.sp_disabled
  /\ sp_d2 = s.sp_d2
  /\ tg_disabled = s.tg_disabled
  /\ tg_d2 = s.tg_d2
  /\ ta_d2 = s.ta_d2
  /\ comport_status = s.comport_status
  /\ serial_time_out = s.serial_time_out
  /\ serial_timer_running = s.serial_timer_running
  /\ system_of_measurements = s.system_of_measurements
  /\ hung = s.hung
  /\ cmd_sensor = s.cmd_sensor
  /\ out = s.out
  /\ run = s.run

FvIdle ==
  /\ fv_response = << >>
  /\ fv_pc = "idle"
  /\ fv_in_ptr = 0
  /\ fv_buf = << >>
  /\ fv_passes = 0

\* no formula is called on its own
DecIdle ==
  /\ dec_formula = "none"
  /\ dec_data = 0
  /\ dec_system = METRIC
  /\ dec_buf = << >>

(***************************************************************************)
(* What read_comport and the user may give a handler                       *)
(***************************************************************************)
TextRpm == <<"4","1","0","C","1","A","F","8">>
TextPadded == <<"4","1","0","5","7","C","0","0","0","0","0","0">>
TextWide == <<"4","1","2","4","F","F","F","F","0","0","0","0">>
TextHead == <<"4","1","0","C">>
TextTail == <<"1","A","F","8">>
TextTwoLines == <<"7","F",SPECIAL_DELIMITER,"4","1","0","5","7","C">>
TextGarbled == <<"Z","Z">>
TextNoToken == <<"7","F",SPECIAL_DELIMITER,"7","F">>

\* An environment: the texts read_comport may return with PROMPT and with
\* DATA, whether the serial timer may expire and the refresh timer tick, and
\* the buttons the user clicks.
EnvLink ==
  [ prompts |-> { TextRpm, TextTail, TextTwoLines, TextGarbled, TextNoData,
                  TextBusBusy, TextBusError, TextDataError, TextDataError2,
                  TextSerialError },
    data |-> {TextHead}, timer |-> FALSE, ticks |-> FALSE, clicks |-> {} ]
EnvTime ==
  [ prompts |-> {TextRpm}, data |-> {}, timer |-> TRUE, ticks |-> FALSE,
    clicks |-> {"flip", "reset_chip", "options", "MSG_START"} ]
EnvPage ==
  [ prompts |-> {TextRpm}, data |-> {TextHead}, timer |-> FALSE,
    ticks |-> FALSE, clicks |-> {"toggle", "toggle_all", "flip"} ]
EnvRate ==
  [ prompts |-> {TextRpm, TextNoData}, data |-> {}, timer |-> FALSE,
    ticks |-> TRUE, clicks |-> {"flip"} ]
EnvDecode ==
  [ prompts |-> {TextRpm, TextPadded, TextWide}, data |-> {}, timer |-> FALSE,
    ticks |-> FALSE, clicks |-> {"flip"} ]

EnvOff ==
  [ prompts |-> {TextRpm}, data |-> {}, timer |-> TRUE, ticks |-> FALSE,
    clicks |-> {"toggle", "options"} ]

EnvRetry ==
  [ prompts |-> {TextRpm, TextGarbled, TextNoToken}, data |-> {}, timer |-> FALSE,
    ticks |-> FALSE, clicks |-> {"flip", "reset_chip"} ]

Environments ==
  {EnvLink, EnvTime, EnvPage, EnvRate, EnvDecode, EnvOff, EnvRetry}

NoRead == [status |-> EMPTY, buf |-> << >>]

\* what read_comport may return while response holds the text so far
ReadResults(response) ==
  {NoRead}
    \cup {[status |-> DATA, buf |-> b] : b \in
            {c \in env.data : Len(response) + Len(c) <= MaxResponseLen}}
    \cup {[status |-> PROMPT, buf |-> b] : b \in
            {c \in env.prompts : Len(response) + Len(c) <= MaxResponseLen}}

\* values strtol may find past the end of a response shorter than its header
StaleValues == {0, 255}

\* the MSG_IDLE of slot k in state s reads the port (897)
Reads(s, k) ==
  /\ ~s.reset_hardware
  /\ s.dp3[k] # NULL
  /\ k = s.current_sensor
  /\ s.comport_status = READY
  /\ s.receiving_response

\* the MSG_IDLE of slot k in state s reaches if (serial_time_out) with the
\* flag set, unless it reads a PROMPT
TimesOut(s, k) ==
  /\ ~s.reset_hardware
  /\ s.dp3[k] # NULL
  /\ k = s.current_sensor
  /\ s.serial_time_out
  /\ s.comport_status = READY => s.receiving_response /\ ~s.sp_disabled[k]

\* the user's answers to "Device is not responding.": 1 OK, 2 configure the
\* port (which then opens or not), 3 ignore
Answers(s, k) ==
  IF TimesOut(s, k) /\ TimeOutLimitReached(s.num_of_sensors_timed_out)
       /\ MayAlertNotResponding(s.ignore_device_not_connected)
    THEN {[answer |-> 1, options |-> s.comport_status],
          [answer |-> 2, options |-> READY],
          [answer |-> 2, options |-> NOT_OPEN],
          [answer |-> 3, options |-> s.comport_status]}
    ELSE {[answer |-> 1, options |-> s.comport_status]}

\* the user's way through "Port is not ready."
PortChoices(s, k, a) ==
  IF TimesOut(s, k) /\ a.options = NOT_OPEN
    THEN {"ignore", "configure", "configure, ignore"}
    ELSE {"ignore"}

\* the buf a PROMPT read leaves for strtol
FoundBuf(s, rd) == find_valid_response(StrCat(s.vehicle_response, rd.buf)).buf

Stales(s, k, rd) ==
  IF Len(FoundBuf(s, rd)) < 4 THEN StaleValues ELSE {0}

Widths(s, k, rd) ==
  IF Len(PayloadText(FoundBuf(s, rd), SensorRow(s.dp3[k]).bytes)) >= 8
    THEN LongWidths ELSE {32}

\* what one MSG_IDLE of slot k may be given in state s
IdleInputs(s, k) ==
  UNION { IF rd.status = PROMPT
            THEN { [rd |-> rd, answer |-> 1, options |-> s.comport_status,
                    port |-> "ignore", stale |-> st, longBits |-> w] :
                      st \in Stales(s, k, rd), w \in Widths(s, k, rd) }
            ELSE UNION { { [rd |-> rd, answer |-> a.answer, options |-> a.options,
                            port |-> p, stale |-> 0, longBits |-> 32] :
                              p \in PortChoices(s, k, a) } : a \in Answers(s, k) } :
          rd \in {r \in ReadResults(s.vehicle_response) : Reads(s, k) \/ r = NoRead} }

\* the saved sensor states and the port as the program is installed
AllEnabled == [i \in SensorIds |-> TRUE]

\* the sensor dialog has just started, for the first time
Init ==
  /\ Assign(display_sensor_dialog(ProgramStart(READY), AllEnabled))
  /\ FvIdle
  /\ DecIdle
  /\ env \in Environments

(***************************************************************************)
(* The sensor dialog: one action per message a handler receives            *)
(***************************************************************************)
\* the sensor whose failure last took from the retry counter, while the
\* counter is below NUM_OF_RETRIES
Retried(pre, post) ==
  [post EXCEPT !.out.retried =
     IF post.retry_attempts = NUM_OF_RETRIES THEN NULL
     ELSE IF post.retry_attempts < pre.retry_attempts
       THEN pre.dp3[post.out.slot]
     ELSE @]

\* the exchange a handler concluded extends the run of conclusions
Finish(pre, post) ==
  IF post.out.concl = ConclNone THEN post
  ELSE ExtendRun(pre, Retried(pre, post), post.out.concl)

\* a handler of the user's click: it ends the run of conclusions
Click(s) == [s EXCEPT !.run = NoRun]

\* no sensor_proc waits for the MSG_DRAW its D_DIRTY asked for to toggle
NoPendingToggle == \A k \in Slots : sp_d2[k] = 0

\* MSG_IDLE reaches the sensor_proc of slot k
SensorIdle(k) ==
  /\ ~hung
  /\ \E in \in IdleInputs(St, k) :
       Commit(Finish(St, sensor_proc_idle(Begin(St, "MSG_IDLE", k), k, in)))
  /\ UNCHANGED <<fvVars, decVars, env>>

\* MSG_DRAW reaches the sensor_proc of slot k, which has a toggle to pass on
SensorDraw(k) ==
  /\ ~hung
  /\ sp_d2[k] # 0
  /\ \A j \in Slots : j < k => sp_d2[j] = 0
  /\ Commit(Click(sensor_proc_draw(Begin(St, "MSG_DRAW", k), k)))
  /\ UNCHANGED <<fvVars, decVars, env>>

\* the user clicks the toggle button of slot k (626-634)
ToggleClick(k) ==
  /\ "toggle" \in env.clicks
  /\ ~hung
  /\ NoPendingToggle
  /\ ~tg_disabled[k]
  /\ Commit(Click(broadcast_toggle(Begin(St, "toggle", k), k)))
  /\ UNCHANGED <<fvVars, decVars, env>>

\* the user clicks "All ON" / "All OFF"
ToggleAllClick ==
  /\ "toggle_all" \in env.clicks
  /\ ~hung
  /\ NoPendingToggle
  /\ Commit(Click(toggle_all_proc_close(Begin(St, "toggle_all", NULL))))
  /\ UNCHANGED <<fvVars, decVars, env>>

\* the user clicks a page flipper that its MSG_READY left enabled (528-538)
PageFlip(d1) ==
  /\ "flip" \in env.clicks
  /\ ~hung
  /\ NoPendingToggle
  /\ FlippedPage(current_page, d1) # current_page
  /\ Commit(Click(page_flipper_proc_close(Begin(St, "flip", NULL), d1)))
  /\ UNCHANGED <<fvVars, decVars, env>>

\* reset_chip_proc on D_CLOSE (328-339)
ResetClick ==
  /\ "reset_chip" \in env.clicks
  /\ ~hung
  /\ Commit(Click([Begin(St, "reset_chip", NULL) EXCEPT !.reset_hardware = TRUE]))
  /\ UNCHANGED <<fvVars, decVars, env>>

\* options_proc on D_CLOSE (342-353): display_options() opens the port or not
OptionsClick ==
  /\ "options" \in env.clicks
  /\ ~hung
  /\ \E status \in {READY, NOT_OPEN} :
       /\ status # comport_status
       /\ Commit(Click([Begin(St, "options", NULL) EXCEPT
                          !.comport_status = status]))
  /\ UNCHANGED <<fvVars, decVars, env>>

\* sensor_proc, MSG_END (828-832): the dialog is closed
sensor_dialog_end(s) ==
  [(IF s.sensors_on_page > 0 THEN stop_serial_timer(s) ELSE s)
     EXCEPT !.dp3 = [k \in Slots |-> NULL]]

\* the user leaves the dialog and enters it again: save_sensor_states, then
\* display_sensor_dialog with the states saved
Reopen ==
  /\ "MSG_START" \in env.clicks
  /\ ~hung
  /\ NoPendingToggle
  /\ Commit(Click(display_sensor_dialog(
                    sensor_dialog_end(Begin(St, "MSG_START", NULL)), enabled)))
  /\ UNCHANGED <<fvVars, decVars, env>>

\* the serial timer's interrupt
SerialTimeOut ==
  /\ env.timer
  /\ serial_timer_running
  /\ ~serial_time_out
  /\ Commit([St EXCEPT !.serial_time_out = TRUE])
  /\ UNCHANGED <<fvVars, decVars, env>>

\* inc_refresh_time (245-248), the interrupt of the refresh timer
IncRefreshTime ==
  /\ env.ticks
  /\ initialization_occured
  /\ refresh_time < MaxRefreshTime
  /\ Commit([St EXCEPT !.refresh_time = @ + 1])
  /\ UNCHANGED <<fvVars, decVars, env>>

Next ==
  \/ \E k \in Slots : SensorIdle(k)
  \/ \E k \in Slots : SensorDraw(k)
  \/ \E k \in Slots : ToggleClick(k)
  \/ ToggleAllClick
  \/ \E d1 \in {-1, 1} : PageFlip(d1)
  \/ ResetClick
  \/ OptionsClick
  \/ Reopen
  \/ SerialTimeOut
  \/ IncRefreshTime

Spec == Init /\ [][Next]_vars

(***************************************************************************)
(* find_valid_response on its own, one pass of its outer loop at a time    *)
(***************************************************************************)
FvAlphabet == {"4", "1", "7", SPECIAL_DELIMITER}

RECURSIVE TextsOfLen(_)
TextsOfLen(n) ==
  IF n = 0 THEN {<< >>}
  ELSE {Append(t, c) : t \in TextsOfLen(n - 1), c \in FvAlphabet}

FvTexts == UNION {TextsOfLen(n) : n \in 0..MaxTextLen}

\* find_valid_response(buf, response) is entered: in_ptr = response, buf[0] = 0
InitFvr ==
  /\ Assign(display_sensor_dialog(ProgramStart(READY), AllEnabled))
  /\ DecIdle
  /\ env = EnvLink
  /\ fv_response \in FvTexts
  /\ fv_pc = "while"
  /\ fv_in_ptr = 0
  /\ fv_buf = << >>
  /\ fv_passes = 0

\* 1043-1053: the valid response is copied and the loop left
FvCopy ==
  /\ fv_pc = "while"
  /\ CharAt(fv_response, fv_in_ptr) # "\\0"
  /\ IsValidResponseStart(fv_response, fv_in_ptr)
  /\ fv_buf' = CopyValidResponse(fv_response, fv_in_ptr)
  /\ fv_in_ptr' = SkipToDelimiter(fv_response, fv_in_ptr)
  /\ fv_pc' = "strlen"
  /\ UNCHANGED <<progVars, decVars, env, fv_response, fv_passes>>

\* 1054-1059: skip to the next delimiter, and around the loop again
FvSkip ==
  /\ fv_pc = "while"
  /\ CharAt(fv_response, fv_in_ptr) # "\\0"
  /\ ~IsValidResponseStart(fv_response, fv_in_ptr)
  /\ fv_passes < MaxPasses
  /\ fv_in_ptr' = SkipBranch(fv_response, fv_in_ptr)
  /\ fv_passes' = fv_passes + 1
  /\ UNCHANGED <<progVars, decVars, env, fv_response, fv_pc, fv_buf>>

\* 1041: *in_ptr is 0, the loop ends
FvExit ==
  /\ fv_pc = "while"
  /\ CharAt(fv_response, fv_in_ptr) = "\\0"
  /\ fv_pc' = "strlen"
  /\ UNCHANGED <<progVars, decVars, env, fv_response, fv_in_ptr, fv_buf, fv_passes>>

\* 1062-1065
FvReturn ==
  /\ fv_pc = "strlen"
  /\ fv_pc' = IF Len(fv_buf) > 0 THEN "TRUE" ELSE "FALSE"
  /\ UNCHANGED <<progVars, decVars, env, fv_response, fv_in_ptr, fv_buf, fv_passes>>

NextFvr == FvCopy \/ FvSkip \/ FvExit \/ FvReturn

SpecFvr == InitFvr /\ [][NextFvr]_vars

(***************************************************************************)
(* A decode formula on its own: formula(data, buf) for every data          *)
(***************************************************************************)
\* the formula is about to be called with data
InitDecode ==
  /\ Assign(display_sensor_dialog(ProgramStart(READY), AllEnabled))
  /\ FvIdle
  /\ env = EnvDecode
  /\ dec_formula \in {"engine_rpm_formula", "fuel_system1_status_formula",
                      "fuel_system2_status_formula",
                      "secondary_air_status_formula"}
  /\ dec_data \in 0..MaxData
  /\ dec_system \in {METRIC, IMPERIAL}
  /\ dec_formula # "engine_rpm_formula" => dec_system = METRIC
  /\ dec_buf = << >>

DecodeRpm ==
  /\ dec_formula = "engine_rpm_formula"
  /\ dec_buf = << >>
  /\ dec_buf' = Sprintf(engine_rpm_formula(dec_data, dec_system))
  /\ UNCHANGED <<progVars, fvVars, env, dec_formula, dec_data, dec_system>>

DecodeFuelSystem1 ==
  /\ dec_formula = "fuel_system1_status_formula"
  /\ dec_buf = << >>
  /\ dec_buf' = Sprintf(fuel_system1_status_formula(dec_data, dec_system))
  /\ UNCHANGED <<progVars, fvVars, env, dec_formula, dec_data, dec_system>>

DecodeFuelSystem2 ==
  /\ dec_formula = "fuel_system2_status_formula"
  /\ dec_buf = << >>
  /\ dec_buf' = Sprintf(fuel_system2_status_formula(dec_data, dec_system))
  /\ UNCHANGED <<progVars, fvVars, env, dec_formula, dec_data, dec_system>>

DecodeSecondaryAir ==
  /\ dec_formula = "secondary_air_status_formula"
  /\ dec_buf = << >>
  /\ dec_buf' = Sprintf(secondary_air_status_formula(dec_data, dec_system))
  /\ UNCHANGED <<progVars, fvVars, env, dec_formula, dec_data, dec_system>>

NextDecode ==
  DecodeRpm \/ DecodeFuelSystem1 \/ DecodeFuelSystem2 \/ DecodeSecondaryAir

SpecDecode == InitDecode /\ [][NextDecode]_vars

(***************************************************************************)
(* The polling loop left to itself: MSG_IDLE after MSG_IDLE with the port  *)
(* ready and no click, every exchange ending by a prompt or by a timeout   *)
(***************************************************************************)
EnvBus ==
  [ prompts |-> {TextRpm, TextBusError}, data |-> {}, timer |-> FALSE,
    ticks |-> FALSE, clicks |-> {} ]
EnvStall ==
  [ prompts |-> {TextRpm, TextGarbled}, data |-> {}, timer |-> TRUE,
    ticks |-> FALSE, clicks |-> {} ]

InitLive ==
  /\ Assign(display_sensor_dialog(ProgramStart(READY), AllEnabled))
  /\ FvIdle
  /\ DecIdle
  /\ env \in {EnvBus, EnvStall}

NextLive ==
  \/ \E k \in Slots : SensorIdle(k)
  \/ SerialTimeOut

\* a MSG_IDLE that sends a command or concludes an exchange: the dialog
\* manager keeps sending MSG_IDLE, and the adapter or the timer ends every
\* exchange
Exchange ==
  \E k \in Slots :
    /\ SensorIdle(k)
    /\ out'.sent # << >> \/ out'.concl # ConclNone

\* the timer interrupt fires while the timer runs, and the dialog manager
\* never stops sending MSG_IDLE: sensor_proc accepts it in every state, so
\* the fair behaviours are those with infinitely many Exchange steps
SpecLive ==
  /\ InitLive
  /\ [][NextLive]_vars
  /\ WF_vars(SerialTimeOut)
  /\ []<><<Exchange>>_vars

(***************************************************************************)
(* Properties                                                              *)
(***************************************************************************)
Range(seq) == {seq[i] : i \in 1..Len(seq)}

\* the sensors fill_sensors puts on page_number
PageSensors(page_number) ==
  {i \in SensorIds : \E k \in Slots : SlotSensor(k, page_number) = i}

RetryableKinds == {BUS_BUSY, DATA_ERROR, DATA_ERROR2, SERIAL_ERROR, RUBBISH}

\* C1: starting with the retry counter at its maximum, the third consecutive
\* exchange classified Rubbish for the sensor at the cursor has raised exactly
\* one alert, advanced the cursor and left the retry counter at its maximum.
C1_ThirdRubbishAlerts ==
  (out.op = "MSG_IDLE" /\ out.concl = RUBBISH
     /\ run.kind = RUBBISH /\ run.n = NUM_OF_RETRIES)
    => /\ run.alerts = 1
       /\ retry_attempts = NUM_OF_RETRIES
       /\ current_sensor = NextSensor(out.cursor0, sensors_on_page)

\* C2: the third consecutive timeout (no prompt in between, 'ignore' not
\* chosen) leaves the device marked not connected, exactly one
\* device-not-responding alert raised and the timeout counter at 0.
C2_ThirdTimeoutAlerts ==
  (out.op = "MSG_IDLE" /\ out.concl = ConclTimeout
     /\ run.kind = ConclTimeout /\ run.n = SENSORS_TO_TIME_OUT
     /\ ~out.ignore0)
    => /\ ~device_connected
       /\ run.alerts = 1
       /\ num_of_sensors_timed_out = 0

\* C3: once the user has answered 'ignore', no handler of the session raises
\* the device-not-responding alert again, and the answer stands until the
\* dialog is started anew.
C3_IgnoreSilences ==
  /\ [](out.ignore0 => AlertNotResponding \notin Range(out.alerts))
  /\ [][ignore_device_not_connected /\ ~ignore_device_not_connected'
          => out'.op = "MSG_START"]_vars

\* C3 happens: with 'ignore' answered, a timeout finds the limit reached
\* again, and resets the counter without an alert
C3_Witness ==
  /\ out.op = "MSG_IDLE"
  /\ out.ignore0
  /\ out.concl = ConclTimeout
  /\ num_of_sensors_timed_out = 0
  /\ out.alerts = << >>

\* C4: a page switch leaves the cursor at 0 and both refresh rates at 0, and
\* every MSG_IDLE sends its command for, and changes the display value of,
\* sensors of the active page only.
C4_PageSwitch ==
  /\ [](out.op = "flip"
          => /\ current_sensor = 0
             /\ inst_refresh_rate = RateZero
             /\ avg_refresh_rate = RateZero)
  /\ [](out.op = "MSG_IDLE" /\ out.polled # NULL
          => out.polled \in PageSensors(current_page))
  /\ [][out'.op = "MSG_IDLE"
          => \A i \in SensorIds \ PageSensors(current_page) :
               screen_buf'[i] = screen_buf[i]]_vars

\* C4 happens: the response to a command sent before the page switch arrives
\* on the new page and is dropped
C4_Witness ==
  /\ out.op = "MSG_IDLE"
  /\ out.concl = ConclDiscarded
  /\ current_page = 1

\* the segments of text between delimiters, in order
RECURSIVE Segments(_)
Segments(text) ==
  LET n == SkipToDelimiter(text, 0)
  IN IF n >= Len(text) THEN <<text>>
     ELSE <<SubSeq(text, 1, n)>> \o Segments(Suffix(text, n + 1))

BeginsWith41(seg) == Len(seg) >= 2 /\ seg[1] = "4" /\ seg[2] = "1"

\* the loop has made a pass and is in one that leaves it where it is: it
\* has no other state, and goes round for ever
FvStuck ==
  /\ fv_pc = "while"
  /\ fv_passes > 0
  /\ CharAt(fv_response, fv_in_ptr) # "\\0"
  /\ ~IsValidResponseStart(fv_response, fv_in_ptr)
  /\ SkipBranch(fv_response, fv_in_ptr) = fv_in_ptr

\* C5: for a text with a segment that begins with "41", find_valid_response
\* gets past every segment before it and returns TRUE with exactly the first
\* such segment in buf.
C5_FirstSegment41 ==
  (\E i \in 1..Len(Segments(fv_response)) : BeginsWith41(Segments(fv_response)[i]))
    => /\ ~FvStuck
       /\ fv_pc # "FALSE"
       /\ fv_pc = "TRUE"
            => LET segs == Segments(fv_response)
                   first == CHOOSE i \in 1..Len(segs) :
                              /\ BeginsWith41(segs[i])
                              /\ \A j \in 1..(i - 1) : ~BeginsWith41(segs[j])
               IN fv_buf = segs[first]

\* C6: every MSG_IDLE handler returns, whatever text has accumulated and
\* whatever the port status.
C6_TickReturns == ~hung

\* the claimed raw value: the big-endian integer of the pairs, as its high
\* and low 16 bits
BigEndianIs(raw, pairs) ==
  IF Len(pairs) <= 4 THEN raw = HexValue(pairs)
  ELSE /\ raw \div 65536 = HexValue(SubSeq(pairs, 1, Len(pairs) - 4))
       /\ raw % 65536 = HexValue(SubSeq(pairs, Len(pairs) - 3, Len(pairs)))

\* C7: the raw value handed to the formula is the big-endian integer of
\* exactly the sensor's number of hex byte pairs after the 4-character
\* header of the extracted response; padding after them is ignored.
C7_RawIsBigEndian ==
  (out.op = "MSG_IDLE" /\ out.concl = HEX_DATA /\ out.raw # << >>)
    => LET token == find_valid_response(vehicle_response).buf
           bytes == SensorRow(dp3[out.slot]).bytes
       IN Len(token) >= 4 + 2 * bytes
            => BigEndianIs(out.raw[1], SubSeq(token, 5, 4 + 2 * bytes))

\* C8: the cursor is an index of a sensor on the active page, and a MSG_IDLE
\* leaves it where it was or at (cursor + 1) mod the sensors on the page.
C8_CursorInPage ==
  /\ current_sensor \in 0..(sensors_on_page - 1)
  /\ out.op = "MSG_IDLE"
       => current_sensor \in {out.cursor0, (out.cursor0 + 1) % sensors_on_page}

\* C8 happens: the cursor wrapped from the last sensor of a page with more
\* than one sensor to the first
C8_Witness ==
  /\ out.op = "MSG_IDLE"
  /\ sensors_on_page > 1
  /\ out.cursor0 = sensors_on_page - 1
  /\ current_sensor = 0

\* C9: a prompt concluding an exchange classified BUS_ERROR leaves "N/A" on
\* display, exactly the bus-shorted alert raised, the retry counter at its
\* maximum and the cursor on the next sensor.
C9_BusErrorTerminal ==
  (out.op = "MSG_IDLE" /\ out.concl = BUS_ERROR)
    => /\ screen_buf[dp3[out.slot]] = TextNA
       /\ out.alerts = <<AlertBusError>>
       /\ retry_attempts = NUM_OF_RETRIES
       /\ current_sensor = NextSensor(out.cursor0, sensors_on_page)

\* C10: a retryable failure classified with the retry counter at 0 raises
\* the alert of its category, resets the retry counter to its maximum and
\* advances the cursor.
C10_ExhaustedAdvances ==
  (out.op = "MSG_IDLE" /\ out.concl \in RetryableKinds /\ out.retry0 = 0)
    => /\ out.alerts = RetryAlert(out.concl)
       /\ retry_attempts = NUM_OF_RETRIES
       /\ current_sensor = NextSensor(out.cursor0, sensors_on_page)

\* the step is a MSG_IDLE handler of slot k: it leaves its account in out, and
\* is neither of the timers' interrupts, which leave out as it was
IdleStep(k) ==
  /\ out'.op = "MSG_IDLE"
  /\ out'.slot = k
  /\ ~(~serial_time_out /\ serial_time_out')
  /\ ~(refresh_time' > refresh_time)

\* the handler of slot k read no prompt
NoPromptRead == out'.concl \in {ConclNone, ConclTimeout, ConclReset}

\* what the timeout branch leaves of the exchange of slot k
TimedOutExchange(k) ==
  /\ ~receiving_response'
  /\ screen_buf'[dp3[k]] = TextNA
  /\ current_sensor' = NextSensor(current_sensor, sensors_on_page)

C12_DisabledSkipped ==
  [][\A k \in Slots :
       (IdleStep(k) /\ k = current_sensor /\ dp3[k] # NULL
          /\ ~reset_hardware /\ comport_status = READY)
         => /\ (~enabled[dp3[k]] /\ ~receiving_response)
                 => /\ out'.sent = << >>
                    /\ out'.fed = <<SENSOR_OFF>>
                    /\ current_sensor' = NextSensor(current_sensor, sensors_on_page)
            /\ out'.polled # NULL => enabled[out'.polled]]_vars

\* C13: no MSG_IDLE sends a sensor's command while the port is not open, and
\* once the port is ready or the user has answered "ignore" to "Port is not
\* ready." the MSG_IDLE of the enabled sensor at the cursor, with no exchange
\* awaited, sends that sensor's command.
C13_PortGate ==
  [][\A k \in Slots :
       (IdleStep(k) /\ k = current_sensor /\ dp3[k] # NULL /\ ~reset_hardware)
         => /\ out'.polled # NULL => comport_status # NOT_OPEN
            /\ (comport_status \in {READY, USER_IGNORED}
                  /\ ~receiving_response /\ ~sp_disabled[k] /\ ~serial_time_out)
                 => out'.polled = dp3[k]]_vars

\* the step is the handler of the user's click on the toggle button of slot k
ToggleStep(k) ==
  /\ out'.op = "toggle"
  /\ out'.slot = k
  /\ ~(~serial_time_out /\ serial_time_out')
  /\ ~(refresh_time' > refresh_time)

\* C14: a toggle of sensor i negates i's enabled value (so an even number of
\* toggles restores it) and changes neither the enabled value nor the
\* display value of any other sensor.
C14_ToggleLocal ==
  [][\A k \in Slots :
       ToggleStep(k)
         => /\ enabled'[dp3[k]] = ~enabled[dp3[k]]
            /\ \A j \in SensorIds \ {dp3[k]} :
                 /\ enabled'[j] = enabled[j]
                 /\ screen_buf'[j] = screen_buf[j]]_vars

\* C15: once the estimator has started, a MSG_IDLE that feeds it an ACTIVE or
\* NA completion sets the instantaneous rate to 1 / (ticks x 0.010 s), ticks
\* being the tick counter it finds (1.0 Hz for 100 ticks); an ACTIVE
\* completion resets the tick counter to 0, an NA or OFF completion leaves it
\* as it is.
C15_InstantaneousRate ==
  /\ [][\A k \in Slots :
          IdleStep(k)
            => /\ (initialization_occured
                     /\ out'.fed \in {<<SENSOR_ACTIVE>>, <<SENSOR_NA>>})
                    => inst_refresh_rate' = Rate(100, refresh_time)
               /\ out'.fed = <<SENSOR_ACTIVE>> => refresh_time' = 0
               /\ out'.fed \in {<<SENSOR_NA>>, <<SENSOR_OFF>>}
                    => refresh_time' = refresh_time]_vars
  /\ [](InstRate(100) = <<1, 1>>)

\* C15 happens: an NA completion one tick after the last ACTIVE one has set
\* the rate to 100 Hz and left the tick counter running
C15_Witness ==
  /\ out.op = "MSG_IDLE"
  /\ out.fed = <<SENSOR_NA>>
  /\ initialization_occured
  /\ refresh_time = 1
  /\ inst_refresh_rate = <<100, 1>>

\* C16: whenever every sensor on the active page is disabled and the
\* estimator has been fed the OFF completion of one of them, the
\* instantaneous and the average refresh rate are both 0.
C16_AllOffRatesZero ==
  (/\ \A i \in PageSensors(current_page) : ~enabled[i]
   /\ out.op = "MSG_IDLE"
   /\ out.fed = <<SENSOR_OFF>>)
    => /\ inst_refresh_rate = RateZero
       /\ avg_refresh_rate = RateZero

\* C19: a value decoded into a sensor's display by a MSG_IDLE comes from the
\* response to a command that was sent for that same sensor.
C19_ResponseOfSameSensor ==
  (out.op = "MSG_IDLE" /\ out.concl = HEX_DATA /\ out.raw # << >>)
    => cmd_sensor = dp3[out.slot]

\* the number a text of decimal digits stands for; -1 when it is not one
DigitValue(c) ==
  IF \E v \in 0..9 : DecimalDigits[v + 1] = c
    THEN CHOOSE v \in 0..9 : DecimalDigits[v + 1] = c
    ELSE -1

RECURSIVE DecimalValue(_)
DecimalValue(text) ==
  IF text = << >> THEN -1
  ELSE IF DigitValue(text[Len(text)]) < 0 THEN -1
  ELSE IF Len(text) = 1 THEN DigitValue(text[1])
  ELSE IF DecimalValue(SubSeq(text, 1, Len(text) - 1)) <= 0 THEN -1
  ELSE DecimalValue(SubSeq(text, 1, Len(text) - 1)) * 10 + DigitValue(text[Len(text)])

\* buf reads as the decimal number n >= 0, without leading zeros, then suffix
ReadsNumberThen(buf, n, suffix) ==
  /\ Len(buf) >= 2
  /\ buf[Len(buf)] = suffix
  /\ DecimalValue(SubSeq(buf, 1, Len(buf) - 1)) = n

\* C17: for every raw value in 0..65535 the engine-RPM formula writes the
\* integer raw div 4 followed by " r/min" in metric and by " rpm" in
\* imperial; raw 6904 in metric gives "1726 r/min".
C17_EngineRpm ==
  (dec_formula = "engine_rpm_formula" /\ dec_buf # << >>)
    => /\ ReadsNumberThen(dec_buf, dec_data \div 4,
                          IF dec_system = METRIC THEN " r/min" ELSE " rpm")
       /\ (dec_data = 6904 /\ dec_system = METRIC)
            => dec_buf = <<"1", "7", "2", "6", " r/min">>

\* C17 happens: the formula was called with 6904 in metric
C17_Witness ==
  /\ dec_formula = "engine_rpm_formula"
  /\ dec_data = 6904
  /\ dec_system = METRIC
  /\ dec_buf = <<"1", "7", "2", "6", " r/min">>

\* the five status phrases, by the bit of the selected byte
FuelSystemPhrase(b) ==
  CASE b = 1 -> "open loop"
    [] b = 2 -> "closed loop"
    [] b = 4 -> "open loop, driving"
    [] b = 8 -> "open loop, system fault"
    [] b = 16 -> "closed loop, O2 sensor fault"

\* the byte of raw a fuel-system formula selects, and the value it masks out
SelectedByte(formula, raw) ==
  IF formula = "fuel_system1_status_formula" THEN (raw \div 256) % 256
  ELSE raw % 256
MaskedValue(formula, raw) ==
  IF formula = "fuel_system1_status_formula" THEN ((raw \div 256) % 256) * 256
  ELSE raw % 256

\* buf reads "unknown: " followed by the decimal number n
ReadsUnknown(buf, n) ==
  /\ Len(buf) >= 2
  /\ buf[1] = "unknown: "
  /\ DecimalValue(SubSeq(buf, 2, Len(buf))) = n

FuelSystemCalled ==
  /\ dec_formula \in {"fuel_system1_status_formula", "fuel_system2_status_formula"}
  /\ dec_buf # << >>

\* C18 as stated: for every raw value in 0..65535 each fuel-system formula
\* writes one of the 5 phrases when the selected byte is one of the 5
\* recognised patterns, and "unknown: N", N the masked value, otherwise.
C18_FivePhrasesElseUnknown ==
  FuelSystemCalled
    => LET b == SelectedByte(dec_formula, dec_data)
       IN IF b \in {1, 2, 4, 8, 16}
            THEN dec_buf = <<FuelSystemPhrase(b)>>
            ELSE ReadsUnknown(dec_buf, MaskedValue(dec_formula, dec_data))

\* C18: for every raw value in 0..65535 each fuel-system formula writes one
\* of the 5 phrases when the selected byte is one of the 5 recognised
\* patterns; the formula of fuel system 2 writes "unused" when its byte is 0;
\* for every other raw value they write "unknown: N", N the masked value.
C18_PhrasesUnusedElseUnknown ==
  FuelSystemCalled
    => LET b == SelectedByte(dec_formula, dec_data)
       IN IF b \in {1, 2, 4, 8, 16}
            THEN dec_buf = <<FuelSystemPhrase(b)>>
          ELSE IF dec_formula = "fuel_system2_status_formula" /\ b = 0
            THEN dec_buf = <<"unused">>
          ELSE ReadsUnknown(dec_buf, MaskedValue(dec_formula, dec_data))

\* C18 happens: fuel system 2 was decoded from a raw value whose low byte is 0
C18_Witness ==
  /\ dec_formula = "fuel_system2_status_formula"
  /\ dec_data = 512
  /\ dec_buf = <<"unused">>

\* the handler just sent the command of sensor i, or sensor i is not one the
\* loop has to poll
PolledIfEnabled(i) ==
  (i \in PageSensors(current_page) /\ enabled[i]) => out.polled = i

\* C20: with the port ready and every exchange ended by a prompt or by the
\* timer, every enabled sensor of the active page is sent its command again
\* and again, whatever the responses of the other sensors are classified as.
C20_EveryEnabledPolled ==
  /\ []<>PolledIfEnabled(0)
  /\ []<>PolledIfEnabled(1)
  /\ []<>PolledIfEnabled(2)

\* the command of the sensor in slot k
CommandOf(k) == SensorRow(dp3[k]).command

\* the last handler was a MSG_IDLE that classified a retryable failure with
\* the retry counter above 0
RetriedLast ==
  /\ out.op = "MSG_IDLE"
  /\ out.concl \in RetryableKinds
  /\ out.retry0 > 0

\* a retryable failure was classified with the retry counter above 0, and
\* since then no command was sent and the user clicked nothing
RetryPending ==
  /\ run.kind \in RetryableKinds
  /\ run.n \in 1..NUM_OF_RETRIES
  /\ ~receiving_response

\* the MSG_IDLE of slot k sends the command of its sensor again, and nothing
\* else
Resends(k) ==
  /\ out'.sent = <<CommandOf(k)>>
  /\ out'.polled = cmd_sensor
  /\ cmd_sensor' = cmd_sensor
  /\ dp3'[k] = cmd_sensor

\* C21: a retryable failure classified with the retry counter above 0 takes
\* exactly one from the counter, raises no alert and leaves the cursor where
\* it was; the next MSG_IDLE of the sensor at the cursor sends the same
\* command for the same sensor again.
C21_RetryResends ==
  /\ [](RetriedLast =>
          /\ retry_attempts = out.retry0 - 1
          /\ out.alerts = << >>
          /\ current_sensor = out.cursor0)
  /\ [][\A k \in Slots :
          (IdleStep(k) /\ k = current_sensor /\ (RetriedLast \/ RetryPending))
            => Resends(k)]_vars

\* C21 happens: the command was sent again after a retryable failure that
\* left retries
C21_Witness ==
  /\ out.op = "MSG_IDLE"
  /\ out.polled # NULL
  /\ out.polled = dp3[out.slot]
  /\ out.sent = <<CommandOf(out.slot)>>
  /\ run.kind \in RetryableKinds
  /\ run.n = 2
  /\ retry_attempts = NUM_OF_RETRIES - 2
  /\ receiving_response

\* C22: right after a page switch the cursor is 0, the retry counter is at
\* its maximum, the response text is empty, and the sum and the sample count
\* of the average are cleared.
C22_PageSwitchResetsAll ==
  out.op = "flip"
    => /\ current_sensor = 0
       /\ retry_attempts = NUM_OF_RETRIES
       /\ vehicle_response = << >>
       /\ avg_refresh_rate_accumulator = RateZero
       /\ sensors_on_counter = 0

\* C23: a MSG_IDLE that finds a reset requested does nothing but the reset:
\* it clears the request and the awaiting flag, empties the response text,
\* sends the reset command and no sensor's command, classifies nothing,
\* feeds and alerts nothing, and leaves the cursor where it was.
C23_ResetFirst ==
  [][\A k \in Slots :
       (IdleStep(k) /\ reset_hardware)
         => /\ ~reset_hardware'
            /\ ~receiving_response'
            /\ vehicle_response' = << >>
            /\ out'.sent = <<TextReset>>
            /\ out'.polled = NULL
            /\ out'.concl = ConclReset
            /\ out'.fed = << >>
            /\ out'.alerts = << >>
            /\ current_sensor' = current_sensor]_vars

\* C24: once a MSG_IDLE has processed a reset request the cursor is 0,
\* wherever it was when the reset was requested.
C24_ResetCursorZero ==
  (out.op = "MSG_IDLE" /\ out.concl = ConclReset) => current_sensor = 0

\* the last handler was a MSG_IDLE that read a prompt
ReadPrompt ==
  /\ out.op = "MSG_IDLE"
  /\ out.concl \notin {ConclNone, ConclTimeout, ConclReset}

\* what the MSG_IDLE of slot k that discards a prompt does, and does not
DiscardsOnly(k) ==
  /\ device_connected'
  /\ num_of_sensors_timed_out' = 0
  /\ ~receiving_response'
  /\ ~serial_timer_running'
  /\ screen_buf' = screen_buf
  /\ out'.fed = << >>
  /\ out'.alerts = << >>
  /\ out'.raw = << >>
  /\ retry_attempts' = retry_attempts
  /\ current_sensor' = current_sensor

StartsExchange(k) ==
  /\ out'.sent = <<CommandOf(k)>>
  /\ out'.polled = dp3[k]
  /\ serial_timer_running'
  /\ ~serial_time_out'
  /\ vehicle_response' = << >>
  /\ receiving_response'

\* C26: the MSG_IDLE of the slot at the cursor, with the sensor enabled, the
\* port ready, no exchange awaited and no reset requested, sends the
\* sensor's command once, starts the request timer, empties the response
\* text and sets the awaiting flag; a MSG_IDLE that finds an exchange awaited
\* and no reset requested sends nothing.
C26_SendsOnceWhenIdle ==
  [][\A k \in Slots :
       /\ (IdleStep(k) /\ k = current_sensor /\ dp3[k] # NULL
             /\ enabled[dp3[k]] /\ comport_status = READY
             /\ ~receiving_response /\ ~reset_hardware)
            => StartsExchange(k)
       /\ (IdleStep(k) /\ receiving_response /\ ~reset_hardware)
            => out'.sent = << >>]_vars

\* C27: every MSG_IDLE that reads a prompt while an exchange is awaited
\* leaves the device marked connected, the timeout counter at 0, the request
\* timer stopped and the awaiting flag cleared, however the response is
\* classified.
C27_PromptEndsWait ==
  (out.op = "MSG_IDLE" /\ out.read = PROMPT)
    => /\ device_connected
       /\ num_of_sensors_timed_out = 0
       /\ ~serial_timer_running
       /\ ~receiving_response

\* the last handler was a MSG_IDLE whose prompt ended an exchange classified
\* HEX_DATA, and find_valid_response found a response in its text
DecodedLast ==
  /\ out.op = "MSG_IDLE"
  /\ out.concl = HEX_DATA
  /\ find_valid_response(vehicle_response).returns
  /\ find_valid_response(vehicle_response).found

\* C28: a prompt that ends an exchange classified HEX_DATA with a valid
\* response found leaves the formula's text for the raw value on the display
\* of the sensor that was at the cursor, exactly one ACTIVE completion fed,
\* the cursor one further (wrapping), the retry counter at its maximum, and
\* no alert raised.
C28_HexDataDecoded ==
  DecodedLast
    => /\ Len(out.raw) = 1
       /\ screen_buf[dp3[out.slot]] =
            ApplyFormula(SensorRow(dp3[out.slot]).formula, out.raw[1],
                         system_of_measurements)
       /\ out.slot = out.cursor0
       /\ out.fed = <<SENSOR_ACTIVE>>
       /\ current_sensor = NextSensor(out.cursor0, sensors_on_page)
       /\ retry_attempts = NUM_OF_RETRIES
       /\ out.alerts = << >>

\* C28 happens: after a failure that took a retry, the value of the last
\* sensor of the page was decoded and the cursor wrapped
C28_Witness ==
  /\ DecodedLast
  /\ out.retry0 < NUM_OF_RETRIES
  /\ retry_attempts = NUM_OF_RETRIES
  /\ out.cursor0 = 1
  /\ current_sensor = 0
  /\ out.fed = <<SENSOR_ACTIVE>>

\* what the "NO DATA" handling leaves of the exchange of the last MSG_IDLE:
\* "N/A" on display, one NA completion fed, the cursor one further, the retry
\* counter at its maximum, no alert, and no exchange awaited
EndedAsNoData ==
  /\ screen_buf[dp3[out.slot]] = TextNA
  /\ out.fed = <<SENSOR_NA>>
  /\ out.slot = out.cursor0
  /\ current_sensor = NextSensor(out.cursor0, sensors_on_page)
  /\ retry_attempts = NUM_OF_RETRIES
  /\ out.alerts = << >>
  /\ out.sent = << >>
  /\ ~receiving_response

\* C29: a prompt that ends an exchange classified ERR_NO_DATA ends it at
\* once, without retry or alert: "N/A" on display, one NA completion fed, the
\* cursor advanced, the retry counter at its maximum.
C29_NoDataTerminal ==
  (out.op = "MSG_IDLE" /\ out.concl = ERR_NO_DATA) => EndedAsNoData

\* C29 happens: "NO DATA" came after a failure that had taken a retry, for
\* the first of two sensors
C29_Witness ==
  /\ out.op = "MSG_IDLE"
  /\ out.concl = ERR_NO_DATA
  /\ out.retry0 < NUM_OF_RETRIES
  /\ retry_attempts = NUM_OF_RETRIES
  /\ out.cursor0 = 0
  /\ current_sensor = 1

\* no line of text begins with "41"
NoToken(text) ==
  \A i \in 1..Len(Segments(text)) : ~BeginsWith41(Segments(text)[i])

\* C30: a response classified HEX_DATA of which no line begins with "41" is
\* not decoded: the exchange ends as one classified
\* ERR_NO_DATA does, with "N/A" on display, one NA completion fed, the cursor
\* advanced, the retry counter at its maximum, and neither alert nor retry.
C30_HexWithoutResponse ==
  (out.op = "MSG_IDLE" /\ out.concl = HEX_DATA /\ NoToken(vehicle_response))
    => /\ EndedAsNoData
       /\ out.raw = << >>

\* C31: every MSG_IDLE that ends an exchange by timeout feeds exactly one NA
\* completion to calculate_refresh_rate and adds one to the count of
\* consecutive timeouts.
C31_TimeoutFeedsNA ==
  [][\A k \in Slots :
       (IdleStep(k) /\ out'.concl = ConclTimeout)
         => /\ out'.fed = <<SENSOR_NA>>
            /\ num_of_sensors_timed_out' = num_of_sensors_timed_out + 1]_vars

\* the MSG_IDLE of slot k gives calculate_refresh_rate, already initialized,
\* a completion that is not OFF
SampleStep(k) ==
  /\ IdleStep(k)
  /\ initialization_occured
  /\ out'.fed \in {<<SENSOR_ACTIVE>>, <<SENSOR_NA>>}

\* the size of the window of the average
WindowSize == sensors_on_page - num_of_disabled_sensors

\* C32: every sample that is not OFF is added to the sum and counted; when
\* the count reaches sensors_on_page - num_of_disabled_sensors the average
\* becomes the sum over that count, and the sum and the count restart at 0;
\* the count divided by is never 0.
C32_WindowAverage ==
  [][\A k \in Slots :
       SampleStep(k)
         => LET sum == RateAdd(avg_refresh_rate_accumulator, inst_refresh_rate')
                count == sensors_on_counter + 1
            IN /\ WindowSize > 0
               /\ IF count = WindowSize
                    THEN /\ avg_refresh_rate' = RateDivInt(sum, WindowSize)
                         /\ avg_refresh_rate_accumulator' = RateZero
                         /\ sensors_on_counter' = 0
                    ELSE /\ avg_refresh_rate_accumulator' = sum
                         /\ sensors_on_counter' = count
                         /\ avg_refresh_rate' = avg_refresh_rate]_vars

\* C33: whenever a non-OFF completion makes the estimator compute an
\* instantaneous rate, the tick count it divides by is greater than 0.
C33_TicksPositive ==
  [][\A k \in Slots : SampleStep(k) => refresh_time > 0]_vars

\* C34: the retry counter stays within 0..NUM_OF_RETRIES; it is one counter
\* for all sensors, so what a failing sensor took from it is still missing
\* when the exchange of another sensor starts.
C34_RetryCounterShared ==
  /\ retry_attempts \in 0..NUM_OF_RETRIES
  /\ (out.retried # NULL) <=> (retry_attempts < NUM_OF_RETRIES)

\* a command was just sent for a sensor while the retry counter was still
\* short of what another sensor's failures took from it
C34_Witness ==
  /\ out.op = "MSG_IDLE"
  /\ out.polled # NULL
  /\ out.polled = dp3[out.slot]
  /\ out.sent = <<CommandOf(out.slot)>>
  /\ receiving_response
  /\ out.retry0 < NUM_OF_RETRIES
  /\ retry_attempts = out.retry0
  /\ out.retried # NULL
  /\ out.retried # out.polled

\* the step disables (to = TRUE) or re-enables (to = FALSE) the sensor shown
\* in slot k
Switches(k, to) ==
  /\ dp3[k] # NULL
  /\ dp3'[k] = dp3[k]
  /\ sp_disabled[k] = ~to
  /\ sp_disabled'[k] = to

\* the display of the sensor in slot k is left alone or set to
\* "not monitoring"
DisplayKept(k) ==
  screen_buf'[dp3[k]] \in {screen_buf[dp3[k]], TextNotMonitoring}

\* C35: disabling a sensor sets its display to "not monitoring" and
\* re-enabling it sets it to "N/A"; while a sensor of the active page stays
\* disabled, no MSG_IDLE sets its display to a decoded value or to "N/A".
C35_DisabledDisplay ==
  [][\A k \in Slots :
       /\ Switches(k, TRUE) => screen_buf'[dp3[k]] = TextNotMonitoring
       /\ Switches(k, FALSE) => screen_buf'[dp3[k]] = TextNA
       /\ (IdleStep(k) /\ dp3[k] # NULL /\ sp_disabled[k] /\ sp_disabled'[k])
            => DisplayKept(k)]_vars

\* the sensors of the active page whose enabled value is FALSE
DisabledOnPage ==
  {k \in Slots : k < sensors_on_page /\ dp3[k] # NULL /\ ~enabled[dp3[k]]}

\* C36: when no sensor_proc has a toggle left to pass on, the count of
\* disabled sensors is the number of sensors of the active page whose enabled
\* value is FALSE, and it lies within 0..sensors_on_page.
C36_DisabledCount ==
  NoPendingToggle
    => /\ num_of_disabled_sensors = Cardinality(DisabledOnPage)
       /\ num_of_disabled_sensors \in 0..sensors_on_page

\* C36 happens: on the page reached by a switch one sensor is disabled and
\* counted, while a sensor of another page is disabled and not counted
C36_Witness ==
  /\ NoPendingToggle
  /\ current_page = 1
  /\ out.op \in {"toggle", "toggle_all", "MSG_DRAW"}
  /\ num_of_disabled_sensors = 1
  /\ Cardinality(DisabledOnPage) = 1
  /\ \E i \in SensorIds :
       /\ ~enabled[i]
       /\ \A k \in Slots : dp3[k] # i

\* the raw values of a payload of that many bytes
PayloadValues(bytes) == 0 .. (256 ^ bytes - 1)

\* what bits 0, 1 and 2 of the payload byte say
SecondaryAirPhrase(bits) ==
  CASE bits = 1 -> "upstream of 1st cat. conv."
    [] bits = 2 -> "downstream of 1st cat. conv."
    [] bits = 4 -> "atmosphere/off"
    [] OTHER -> "Not supported"

\* C37: for the 1-byte payload its table row polls, the secondary air status
\* decoder writes what bits 0, 1 and 2 of that byte say: one of the three
\* positions when exactly that bit is set, "Not supported" otherwise.
C37_SecondaryAirBits ==
  ( /\ dec_formula = SecondaryAirRow.formula
    /\ dec_data \in PayloadValues(SecondaryAirRow.bytes)
    /\ dec_buf # << >> )
    => dec_buf = <<SecondaryAirPhrase(dec_data % 8)>>

=============================================================================
